---- MODULE Spec2Model ----
(***************************************************************************)
(* A model of the PQC blockchain of src/main.rs: transactions signed with  *)
(* a post-quantum signature scheme, blocks mined by brute-force nonce      *)
(* search over a SHA-256 hex digest, and the chain's add_block / is_valid. *)
(*                                                                         *)
(* Byte strings (Vec<u8>) and text (String, &str) are both sequences of    *)
(* byte values; text is its ASCII/UTF-8 encoding, so "0" is <<48>>.        *)
(***************************************************************************)
EXTENDS Integers, Sequences, FiniteSets, Bags, TLC

\* ------------------------------------------------------------------ bounds
\* Longest chain the model builds.
MaxBlocks == 3
\* Longest transaction batch handed to add_block.
MaxTxs == 2
\* Largest difficulty handed to Blockchain::new.
MaxDifficulty == 1
\* Nonces 0..MaxNonce are tried; a search that needs more does not return.
MaxNonce == 64
\* Number of writes made through the public fields in one run.
MaxTamper == 1
\* Number of writes made to the fields of one transaction in one run.
MaxTxWrites == 2
\* Bytes of the modelled digest (SHA-256 has 32).
DigestLen == 1
\* Number of wallets (key pairs) in existence.
NumWallets == 2

\* ------------------------------------------------------------- text helpers
\* format!("{}", n) of an unsigned integer: its decimal digits.
RECURSIVE Dec(_)
Dec(n) == IF n < 10 THEN <<48 + n>> ELSE Dec(n \div 10) \o <<48 + (n % 10)>>

\* One lowercase hex digit, as format!("{:x}") writes it.
HexDigit(v) == IF v < 10 THEN 48 + v ELSE 87 + v

\* format!("{:x}", digest): two lowercase hex digits per byte.
RECURSIVE Hex(_)
Hex(bytes) ==
    IF bytes = <<>> THEN <<>>
    ELSE <<HexDigit(Head(bytes) \div 16), HexDigit(Head(bytes) % 16)>> \o Hex(Tail(bytes))

\* "0".repeat(n)
Repeat(c, n) == [i \in 1..n |-> c]

\* str::starts_with
StartsWith(s, p) == Len(p) <= Len(s) /\ SubSeq(s, 1, Len(p)) = p

\* Concatenation of a sequence of sequences.
RECURSIVE Flatten(_)
Flatten(ss) == IF ss = <<>> THEN <<>> ELSE Head(ss) \o Flatten(Tail(ss))

\* Items joined by commas.
RECURSIVE Join(_)
Join(ss) ==
    IF ss = <<>> THEN <<>>
    ELSE IF Len(ss) = 1 THEN ss[1]
    ELSE ss[1] \o <<44>> \o Join(Tail(ss))

\* ------------------------------------------------------------------ SHA-256
\* The digest is an external primitive.  It is modelled by a deterministic
\* hash of the whole input: every byte is weighted by its position, the
\* weighted bytes are summed, and the sum is mixed over a prime field and cut
\* to DigestLen bytes.
DigestMod == 256 ^ DigestLen

Absorbed(bytes) == BagCardinality([i \in 1..Len(bytes) |-> (bytes[i] + 1) * (37 * i + 11)])

RECURSIVE ToBytes(_, _)
ToBytes(v, n) == IF n = 0 THEN <<>> ELSE ToBytes(v \div 256, n - 1) \o <<v % 256>>

\* Sha256::new(); update(bytes); finalize()
Sha256(bytes) ==
    LET h == (Absorbed(bytes) + 20) % 65521
        mixed == ((h * 31337) % 65521) + 65521 * ((h * 173) % 4099)
    IN  ToBytes(mixed % DigestMod, DigestLen)

\* ---------------------------------------------------------------------- PQC
\* Wallet k holds the key pair (<<k>>, <<100 + k>>).
Keypair(k) == [pk |-> <<k>>, sk |-> <<100 + k>>]

\* The signature scheme is an external primitive.  It is modelled as an ideal
\* scheme: the one signature of data under sk is a tag of the key followed by
\* the data, and nothing else verifies.
PQCSign(data, sk) == <<sk[1] + 100>> \o data

\* Mutant of PQCVerify: a signature by any known key is accepted for any pk.
PQCVerifyAnyKey(data, sig, pk) ==
    \E k \in 1..NumWallets : sig = PQCSign(data, Keypair(k).sk)

\* PQC::verify: sigalg.verify(data, sig, pk).is_ok()
PQCVerify(data, sig, pk) ==
    \E k \in 1..NumWallets : pk = Keypair(k).pk /\ sig = PQCSign(data, Keypair(k).sk)

\* -------------------------------------------------------------- Transaction
\* Mutant of TxHash: the signature is hashed too.
TxHashWithSignature(tx) == Sha256(tx.from \o tx.data \o tx.signature)

\* Transaction::hash: SHA-256 of from followed by the bytes of data.
TxHash(tx) == Sha256(tx.from \o tx.data)

\* Transaction::verify
TxVerify(tx) == PQCVerify(TxHash(tx), tx.signature, tx.from)

\* -------------------------------------------------------------------- serde
\* serde_json of a Vec<u8>: [1,2,3]
JsonBytes(bytes) == <<91>> \o Join([i \in 1..Len(bytes) |-> Dec(bytes[i])]) \o <<93>>

\* serde_json of a String: quoted, with " and \ escaped.
JsonStr(s) ==
    <<34>> \o Flatten([i \in 1..Len(s) |->
                 IF s[i] = 34 \/ s[i] = 92 THEN <<92, s[i]>> ELSE <<s[i]>>]) \o <<34>>

\* {"from":[..],"data":"..","signature":[..]}
JsonTx(tx) ==
       <<123, 34, 102, 114, 111, 109, 34, 58>> \o JsonBytes(tx.from)
    \o <<44, 34, 100, 97, 116, 97, 34, 58>> \o JsonStr(tx.data)
    \o <<44, 34, 115, 105, 103, 110, 97, 116, 117, 114, 101, 34, 58>>
    \o JsonBytes(tx.signature) \o <<125>>

\* serde_json::to_string(txs).  Serialising these types cannot fail.
ToJson(txs) ==
    [ok |-> TRUE, val |-> <<91>> \o Join([i \in 1..Len(txs) |-> JsonTx(txs[i])]) \o <<93>>]

\* -------------------------------------------------------------------- Block
\* Mutant of HashInput: the nonce is left out.
HashInputNoNonce(index, prev, data, nonce) == Dec(index) \o prev \o data

\* The string handed to the hasher: format!("{}{}{}{}", index, prev, data, nonce)
HashInput(index, prev, data, nonce) == Dec(index) \o prev \o data \o Dec(nonce)

CalculateHash(index, prev, txs, nonce) ==
    LET data == ToJson(txs) IN
    IF ~data.ok THEN [ok |-> FALSE, err |-> "Serialize"]
    ELSE [ok |-> TRUE, val |-> Hex(Sha256(HashInput(index, prev, data.val, nonce)))]

\* Mutant of MineFrom: one leading zero fewer than the difficulty is accepted.
RECURSIVE MineFromOneZeroShort(_, _, _, _, _)
MineFromOneZeroShort(index, prev, txs, diff, nonce) ==
    LET hash == CalculateHash(index, prev, txs, nonce) IN
    IF hash.ok /\ ~StartsWith(hash.val, Repeat(48, diff - 1)) /\ nonce < MaxNonce
    THEN MineFromOneZeroShort(index, prev, txs, diff, nonce + 1)
    ELSE CASE ~hash.ok -> [status |-> "Err", err |-> hash.err]
           [] hash.ok /\ StartsWith(hash.val, Repeat(48, diff - 1)) ->
                 [status |-> "Ok",
                  block |-> [index |-> index, previous_hash |-> prev, hash |-> hash.val,
                             transactions |-> txs, nonce |-> nonce]]
           [] OTHER -> [status |-> "Loop"]

\* Mutant of MineFrom: the nonce is incremented before the block is built.
RECURSIVE MineFromNextNonce(_, _, _, _, _)
MineFromNextNonce(index, prev, txs, diff, nonce) ==
    LET hash == CalculateHash(index, prev, txs, nonce) IN
    IF hash.ok /\ ~StartsWith(hash.val, Repeat(48, diff)) /\ nonce < MaxNonce
    THEN MineFromNextNonce(index, prev, txs, diff, nonce + 1)
    ELSE CASE ~hash.ok -> [status |-> "Err", err |-> hash.err]
           [] hash.ok /\ StartsWith(hash.val, Repeat(48, diff)) ->
                 [status |-> "Ok",
                  block |-> [index |-> index, previous_hash |-> prev, hash |-> hash.val,
                             transactions |-> txs, nonce |-> nonce + 1]]
           [] OTHER -> [status |-> "Loop"]

\* The loop of Block::mine from a given nonce on.
RECURSIVE MineFrom(_, _, _, _, _)
MineFrom(index, prev, txs, diff, nonce) ==
    LET hash == CalculateHash(index, prev, txs, nonce) IN
    IF hash.ok /\ ~StartsWith(hash.val, Repeat(48, diff)) /\ nonce < MaxNonce
    THEN MineFrom(index, prev, txs, diff, nonce + 1)
    ELSE CASE ~hash.ok -> [status |-> "Err", err |-> hash.err]
           [] hash.ok /\ StartsWith(hash.val, Repeat(48, diff)) ->
                 [status |-> "Ok",
                  block |-> [index |-> index, previous_hash |-> prev, hash |-> hash.val,
                             transactions |-> txs, nonce |-> nonce]]
           [] OTHER -> [status |-> "Loop"]

\* Mutant of Mine: the search starts at nonce 1.
MineFromOne(index, prev, txs, diff) == MineFrom(index, prev, txs, diff, 1)

\* Block::mine: the search starts at nonce 0.
Mine(index, prev, txs, diff) == MineFrom(index, prev, txs, diff, 0)

\* --------------------------------------------------------------- Blockchain
\* "0", the previous_hash of the genesis block.
Sentinel == <<48>>

\* `len() as u32`: the identity below 2^32, which every length here is.
AsU32(n) == n

\* Mutant of New: the genesis block is mined at index 1.
NewGenesisIndexOne(diff) ==
    LET genesis == Mine(1, Sentinel, <<>>, diff) IN
    IF genesis.status = "Ok"
    THEN [status |-> "Ok", chain |-> <<genesis.block>>, difficulty |-> diff]
    ELSE [status |-> genesis.status]

\* Blockchain::new(difficulty)
New(diff) ==
    LET genesis == Mine(0, Sentinel, <<>>, diff) IN
    IF genesis.status = "Ok"
    THEN [status |-> "Ok", chain |-> <<genesis.block>>, difficulty |-> diff]
    ELSE [status |-> genesis.status]

\* Mutants of AddBlockResult.
\* The new block links to the first block instead of the last.
AddBlockResultFirstHash(c, diff, txs) ==
    IF c = <<>> THEN [status |-> "Err", chain |-> c]
    ELSE LET mined == Mine(AsU32(Len(c)), c[1].hash, txs, diff)
         IN  IF mined.status = "Ok"
             THEN [status |-> "Ok", chain |-> Append(c, mined.block)]
             ELSE [status |-> mined.status, chain |-> c]

\* The new block carries the sentinel as its previous hash, as the genesis does.
AddBlockResultSentinelPrev(c, diff, txs) ==
    IF c = <<>> THEN [status |-> "Err", chain |-> c]
    ELSE LET mined == Mine(AsU32(Len(c)), Sentinel, txs, diff)
         IN  IF mined.status = "Ok"
             THEN [status |-> "Ok", chain |-> Append(c, mined.block)]
             ELSE [status |-> mined.status, chain |-> c]

\* The new block's index is the position of the last block, not the length.
AddBlockResultLastIndex(c, diff, txs) ==
    IF c = <<>> THEN [status |-> "Err", chain |-> c]
    ELSE LET mined == Mine(AsU32(Len(c) - 1), c[Len(c)].hash, txs, diff)
         IN  IF mined.status = "Ok"
             THEN [status |-> "Ok", chain |-> Append(c, mined.block)]
             ELSE [status |-> mined.status, chain |-> c]

\* The batch is mined in reverse order.
AddBlockResultReversed(c, diff, txs) ==
    IF c = <<>> THEN [status |-> "Err", chain |-> c]
    ELSE LET last_hash == c[Len(c)].hash
             reversed == [j \in 1..Len(txs) |-> txs[Len(txs) + 1 - j]]
             mined == Mine(AsU32(Len(c)), last_hash, reversed, diff)
         IN  IF mined.status = "Ok"
             THEN [status |-> "Ok", chain |-> Append(c, mined.block)]
             ELSE [status |-> mined.status, chain |-> c]

\* The mined block overwrites the last block instead of being pushed.
AddBlockResultReplaceLast(c, diff, txs) ==
    IF c = <<>> THEN [status |-> "Err", chain |-> c]
    ELSE LET mined == Mine(AsU32(Len(c)), c[Len(c)].hash, txs, diff)
         IN  IF mined.status = "Ok"
             THEN [status |-> "Ok", chain |-> [c EXCEPT ![Len(c)] = mined.block]]
             ELSE [status |-> mined.status, chain |-> c]

\* An empty chain is given a block linked to the sentinel instead of an error.
AddBlockResultPushOnEmpty(c, diff, txs) ==
    LET last_hash == IF c = <<>> THEN Sentinel ELSE c[Len(c)].hash
        mined == Mine(AsU32(Len(c)), last_hash, txs, diff)
    IN  IF mined.status = "Ok"
        THEN [status |-> "Ok", chain |-> Append(c, mined.block)]
        ELSE [status |-> mined.status, chain |-> c]

\* Blockchain::add_block(txs) on the chain c: its return value and the chain
\* it leaves behind.
AddBlockResult(c, diff, txs) ==
    IF c = <<>> THEN [status |-> "Err", chain |-> c]
    ELSE LET last_hash == c[Len(c)].hash
             mined == Mine(AsU32(Len(c)), last_hash, txs, diff)
         IN  IF mined.status = "Ok"
             THEN [status |-> "Ok", chain |-> Append(c, mined.block)]
             ELSE [status |-> mined.status, chain |-> c]

\* Mutant of HashOk: only the length of the stored hash is compared.
HashOkLengthOnly(block) ==
    LET recalculated == CalculateHash(block.index, block.previous_hash,
                                      block.transactions, block.nonce)
    IN  recalculated.ok /\ Len(block.hash) = Len(recalculated.val)

\* Mutant of HashOk: the stored hash must also begin with a zero.
HashOkLeadingZero(block) ==
    LET recalculated == CalculateHash(block.index, block.previous_hash,
                                      block.transactions, block.nonce)
    IN  recalculated.ok /\ block.hash = recalculated.val /\ StartsWith(block.hash, <<48>>)

\* is_valid, "cek hash": the stored hash against the recomputed one.
HashOk(block) ==
    LET recalculated == CalculateHash(block.index, block.previous_hash,
                                      block.transactions, block.nonce)
    IN  recalculated.ok /\ block.hash = recalculated.val

\* Mutant of LinkOk: the link of the block after the genesis is not checked.
LinkOkFromThird(c, i) == ~(i > 2 /\ c[i].previous_hash # c[i - 1].hash)

\* is_valid, "cek link" (i is 1-based here, so the genesis block is i = 1).
LinkOk(c, i) == ~(i > 1 /\ c[i].previous_hash # c[i - 1].hash)

\* Mutant of TxsOk: only the first transaction of a block is verified.
TxsOkFirstOnly(block) == block.transactions = <<>> \/ TxVerify(block.transactions[1])

\* is_valid, "cek transaksi"
TxsOk(block) == \A j \in 1..Len(block.transactions) : TxVerify(block.transactions[j])

\* The loop of is_valid from position i on; it stops at the first failure.
RECURSIVE IsValidFrom(_, _)
IsValidFrom(c, i) ==
    IF i > Len(c) THEN TRUE
    ELSE IF ~HashOk(c[i]) THEN FALSE
    ELSE IF ~LinkOk(c, i) THEN FALSE
    ELSE IF ~TxsOk(c[i]) THEN FALSE
    ELSE IsValidFrom(c, i + 1)

IsValid(c) == IsValidFrom(c, 1)

\* ------------------------------------------------------------------- inputs
Pay == <<112, 97, 121>>       \* "pay"
Fee == <<102, 101, 101>>      \* "fee"

\* A transaction signed by its sender's wallet over its content hash.
SignedTx(k, data) ==
    LET unsigned == [from |-> Keypair(k).pk, data |-> data, signature |-> <<>>]
    IN  [unsigned EXCEPT !.signature = PQCSign(TxHash(unsigned), Keypair(k).sk)]

\* A transaction signed by its sender's wallet over the raw payload bytes.
RawSignedTx(k, data) ==
    [from |-> Keypair(k).pk, data |-> data, signature |-> PQCSign(data, Keypair(k).sk)]

\* "Transfer PQC Data"
Message == <<84, 114, 97, 110, 115, 102, 101, 114, 32, 80, 81, 67, 32, 68, 97, 116, 97>>

\* The transaction main builds: wallet.sign(message) as the signature of a
\* transaction whose payload is the message.
MainTx == RawSignedTx(1, Message)

\* The correctly signed transactions on offer.
TxPool == {SignedTx(1, Pay), SignedTx(2, Fee)}

\* Sequences of at most n distinct elements of S.
RECURSIVE SeqsUpTo(_, _)
SeqsUpTo(S, n) ==
    IF n = 0 THEN {<<>>}
    ELSE LET shorter == SeqsUpTo(S, n - 1)
         IN  shorter \cup
             UNION {{Append(s, x) : x \in S \ {s[a] : a \in 1..Len(s)}} :
                        s \in {t \in shorter : Len(t) = n - 1}}

\* The batches handed to add_block: add_block takes any transactions, so one
\* batch carries a transaction whose signature is over the wrong message.
Batches == SeqsUpTo(TxPool, MaxTxs) \cup {<<MainTx>>}

\* -------------------------------------------------------------------- state
VARIABLES
    chain,        \* Blockchain.chain
    difficulty,   \* Blockchain.difficulty
    lastOp,       \* the operation that ran last
    ret,          \* what it returned
    tampers,      \* number of writes made through the public fields
    arg           \* the arguments of the operation that ran last

vars == <<chain, difficulty, lastOp, ret, tampers, arg>>

Init ==
    \E d \in 0..MaxDifficulty :
        LET r == New(d) IN
        /\ r.status = "Ok"
        /\ chain = r.chain
        /\ difficulty = r.difficulty
        /\ lastOp = "new"
        /\ ret = "Ok"
        /\ tampers = 0
        /\ arg = <<d>>

AddBlock(txs) ==
    /\ Len(chain) < MaxBlocks
    /\ LET r == AddBlockResult(chain, difficulty, txs) IN
       /\ r.status # "Loop"
       /\ chain' = r.chain
       /\ ret' = r.status
    /\ lastOp' = "add_block"
    /\ arg' = <<txs>>
    /\ UNCHANGED <<difficulty, tampers>>

IsValidCall ==
    /\ ret' = IF IsValid(chain) THEN "true" ELSE "false"
    /\ lastOp' = "is_valid"
    /\ arg' = <<>>
    /\ UNCHANGED <<chain, difficulty, tampers>>

\* ----------------------------------------- writes through the public fields
\* Blockchain.chain and every field of Block and Transaction are pub: code
\* holding the chain can overwrite them.  A write may be followed by storing
\* the recomputed hash in the same block.
Rehash(b) ==
    [b EXCEPT !.hash = CalculateHash(b.index, b.previous_hash, b.transactions, b.nonce).val]

Write(i, b, rehash) ==
    /\ tampers < MaxTamper
    /\ chain' = [chain EXCEPT ![i] = IF rehash THEN Rehash(b) ELSE b]
    /\ chain' # chain
    /\ tampers' = tampers + 1
    /\ lastOp' = "write"
    /\ ret' = "Ok"
    /\ arg' = <<>>
    /\ UNCHANGED difficulty

ZeroHex == Repeat(48, 2 * DigestLen)
OnesHex == Repeat(102, 2 * DigestLen)

WriteHash(i) ==
    \E h \in {ZeroHex, OnesHex} : Write(i, [chain[i] EXCEPT !.hash = h], FALSE)

WritePrev(i, rehash) ==
    \E p \in {Sentinel, ZeroHex} :
        Write(i, [chain[i] EXCEPT !.previous_hash = p], rehash)

WriteIndex(i, rehash) ==
    Write(i, [chain[i] EXCEPT !.index = AsU32(@ + 1)], rehash)

WriteNonce(i, rehash) ==
    \E n \in {0, chain[i].nonce + 1} : Write(i, [chain[i] EXCEPT !.nonce = n], rehash)

\* One bit of the first signature byte flipped, or the signature cut short.
Altered(sig) ==
    IF sig = <<>> THEN {<<0>>}
    ELSE {[sig EXCEPT ![1] = IF sig[1] % 2 = 0 THEN sig[1] + 1 ELSE sig[1] - 1],
          SubSeq(sig, 1, Len(sig) - 1)}

WriteSignature(i, rehash) ==
    \E j \in 1..Len(chain[i].transactions) :
        \E s \in Altered(chain[i].transactions[j].signature) :
            Write(i, [chain[i] EXCEPT !.transactions[j].signature = s], rehash)

Clear ==
    /\ tampers < MaxTamper
    /\ chain # <<>>
    /\ chain' = <<>>
    /\ tampers' = tampers + 1
    /\ lastOp' = "write"
    /\ ret' = "Ok"
    /\ arg' = <<>>
    /\ UNCHANGED difficulty

Next ==
    \/ \E txs \in Batches : AddBlock(txs)
    \/ IsValidCall
    \/ \E i \in 1..Len(chain) : WriteHash(i)
    \/ \E i \in 1..Len(chain), rehash \in BOOLEAN : WritePrev(i, rehash)
    \/ \E i \in 1..Len(chain), rehash \in BOOLEAN : WriteIndex(i, rehash)
    \/ \E i \in 1..Len(chain), rehash \in BOOLEAN : WriteNonce(i, rehash)
    \/ \E i \in 1..Len(chain), rehash \in BOOLEAN : WriteSignature(i, rehash)
    \/ Clear

Spec == Init /\ [][Next]_vars

TypeOK ==
    /\ difficulty \in 0..MaxDifficulty
    /\ Len(chain) <= MaxBlocks
    /\ lastOp \in {"new", "add_block", "is_valid", "write"}
    /\ ret \in {"Ok", "Err", "true", "false"}
    /\ tampers \in 0..MaxTamper
    /\ lastOp = "new" => arg = <<difficulty>>
    /\ lastOp = "add_block" => Len(arg) = 1 /\ arg[1] \in Batches
    /\ lastOp \in {"is_valid", "write"} => arg = <<>>

\* --------------------------------------------- one transaction on its own
\* Transaction::hash and Transaction::verify run on a single transaction,
\* held in arg.  The transaction starts out signed by its sender's wallet over
\* its content hash; its fields are pub and are overwritten between calls.
Payloads == {Pay, Fee}

InitTx ==
    \E k \in 1..NumWallets, d \in Payloads :
        /\ arg = <<SignedTx(k, d)>>
        /\ lastOp = "sign"
        /\ ret = "Ok"
        /\ chain = <<>>
        /\ difficulty = 0
        /\ tampers = 0

TxWrite(tx) ==
    /\ tampers < MaxTxWrites
    /\ tx # arg[1]
    /\ arg' = <<tx>>
    /\ tampers' = tampers + 1
    /\ lastOp' = "write"
    /\ ret' = "Ok"
    /\ UNCHANGED <<chain, difficulty>>

TxWriteFrom == \E k \in 1..NumWallets : TxWrite([arg[1] EXCEPT !.from = Keypair(k).pk])

TxWriteData == \E d \in Payloads : TxWrite([arg[1] EXCEPT !.data = d])

\* The signature with a bit flipped, cut short, or a byte longer.
TxWriteSignature ==
    \E s \in Altered(arg[1].signature) \cup {Append(arg[1].signature, 0)} :
        TxWrite([arg[1] EXCEPT !.signature = s])

\* tx.signature = wallet.sign(&pqc, &tx.hash()) for some wallet
TxSign ==
    \E k \in 1..NumWallets :
        TxWrite([arg[1] EXCEPT !.signature = PQCSign(TxHash(arg[1]), Keypair(k).sk)])

TxVerifyCall ==
    /\ ret' = IF TxVerify(arg[1]) THEN "true" ELSE "false"
    /\ lastOp' = "verify"
    /\ UNCHANGED <<arg, chain, difficulty, tampers>>

TxHashCall ==
    /\ ret' = TxHash(arg[1])
    /\ lastOp' = "hash"
    /\ UNCHANGED <<arg, chain, difficulty, tampers>>

NextTx ==
    \/ TxWriteFrom
    \/ TxWriteData
    \/ TxWriteSignature
    \/ TxSign
    \/ TxVerifyCall
    \/ TxHashCall

SpecTx == InitTx /\ [][NextTx]_vars

\* ------------------------------------------- the input of the block hash
\* calculate_hash takes any index, any &str as previous hash, any
\* transactions and any nonce.  arg holds two argument tuples, and the call
\* leaves in ret the string each of them hands to the hasher.
HashArgs ==
    [index : {1, 10},
     previous_hash : {Sentinel, <<53>>, <<48, 53>>, <<53, 48>>},
     transactions : {<<>>, <<SignedTx(1, Pay)>>, <<SignedTx(1, Pay), SignedTx(2, Fee)>>},
     nonce : {0, 5, 50}]

\* data = to_string(transactions); input = format!(...)
PreHash(a) == HashInput(a.index, a.previous_hash, ToJson(a.transactions).val, a.nonce)

InitIn ==
    /\ arg \in HashArgs \X HashArgs
    /\ lastOp = "args"
    /\ ret = "Ok"
    /\ chain = <<>>
    /\ difficulty = 0
    /\ tampers = 0

HashInputCall ==
    /\ lastOp = "args"
    /\ ret' = <<PreHash(arg[1]), PreHash(arg[2])>>
    /\ lastOp' = "input"
    /\ UNCHANGED <<arg, chain, difficulty, tampers>>

NextIn == HashInputCall

SpecIn == InitIn /\ [][NextIn]_vars

\* ------------------------------------------------------------------- claims
\* The vocabulary of the claims, stated on the stored fields.
LastBlock(c) == c[Len(c)]

\* The digest of a block's own stored index, previous_hash, transactions, nonce.
Recomputed(b) ==
    Hex(Sha256(Dec(b.index) \o b.previous_hash \o ToJson(b.transactions).val \o Dec(b.nonce)))

SelfConsistent(b) == b.hash = Recomputed(b)

AllSelfConsistent(c) == \A i \in 1..Len(c) : SelfConsistent(c[i])

Linked(c) == \A i \in 2..Len(c) : c[i].previous_hash = c[i - 1].hash

\* The signature is the sender wallet's signature over the content hash.
Genuine(tx) ==
    \E k \in 1..NumWallets :
        /\ tx.from = Keypair(k).pk
        /\ tx.signature = PQCSign(Sha256(tx.from \o tx.data), Keypair(k).sk)

AllGenuine(c) ==
    \A i \in 1..Len(c) : \A j \in 1..Len(c[i].transactions) : Genuine(c[i].transactions[j])

LeadingZeros(h, d) == Len(h) >= d /\ \A k \in 1..d : h[k] = 48

\* Only new and add_block have touched the chain.
Built == tampers = 0

\* C1: a chain built by new and successful add_block calls whose transactions
\* all carry their sender's signature over their content hash makes is_valid
\* return true, whatever the difficulty.
C1_GenuineChainValid ==
    (lastOp = "is_valid" /\ Built /\ AllGenuine(chain)) => ret = "true"

C1_Witness ==
    /\ lastOp = "is_valid" /\ Built /\ AllGenuine(chain) /\ ret = "true"
    /\ difficulty >= 1
    /\ Len(chain) >= 3
    /\ \E i \in 1..Len(chain) : Len(chain[i].transactions) >= 2

\* C2: if the stored hash of any block, the genesis included, differs from the
\* digest recomputed from that block's own fields, is_valid returns false.
C2_HashMismatchInvalid ==
    (lastOp = "is_valid" /\ \E i \in 1..Len(chain) : ~SelfConsistent(chain[i]))
        => ret = "false"

C2_Witness ==
    /\ lastOp = "is_valid" /\ ret = "false"
    /\ Len(chain) >= 2
    /\ ~SelfConsistent(LastBlock(chain))
    /\ \A i \in 1..(Len(chain) - 1) : SelfConsistent(chain[i])
    /\ Linked(chain) /\ AllGenuine(chain)

\* C3: if the previous_hash of some block after the genesis differs from the
\* stored hash of the block before it, is_valid returns false, also when every
\* block's stored hash matches its own fields.
C3_BrokenLinkInvalid ==
    (lastOp = "is_valid"
        /\ \E i \in 2..Len(chain) : chain[i].previous_hash # chain[i - 1].hash)
        => ret = "false"

C3_Witness ==
    /\ lastOp = "is_valid" /\ ret = "false"
    /\ ~Linked(chain)
    /\ AllSelfConsistent(chain) /\ AllGenuine(chain)

\* The chain c with the signature of transaction j of block i replaced by s.
WithSignature(c, i, j, s) == [c EXCEPT ![i].transactions[j].signature = s]

\* C4: is_valid returns false whenever some transaction of some block does not
\* verify; in particular altering the signature bytes of any one transaction
\* of a genuinely built chain makes is_valid return false.
C4_BadSignatureInvalid ==
    /\ (lastOp = "is_valid"
          /\ \E i \in 1..Len(chain) : \E j \in 1..Len(chain[i].transactions) :
                ~Genuine(chain[i].transactions[j]))
       => ret = "false"
    /\ (Built /\ AllGenuine(chain))
       => \A i \in 1..Len(chain) : \A j \in 1..Len(chain[i].transactions) :
             \A s \in Altered(chain[i].transactions[j].signature) :
                ~IsValid(WithSignature(chain, i, j, s))

C4_Witness ==
    /\ lastOp = "is_valid" /\ ret = "false"
    /\ tampers > 0
    /\ AllSelfConsistent(chain) /\ Linked(chain)
    /\ \E i \in 1..Len(chain) :
          /\ Len(chain[i].transactions) >= 2
          /\ Genuine(chain[i].transactions[1])
          /\ ~Genuine(chain[i].transactions[2])

\* C5: in a chain built by new and successful add_block calls, every block
\* after the genesis carries the hash of the block before it as previous_hash.
C5_BuiltChainLinked == Built => Linked(chain)

C5_Witness ==
    /\ Built /\ lastOp = "add_block" /\ ret = "Ok"
    /\ Len(chain) >= 3
    /\ chain[3].previous_hash = chain[2].hash
    /\ chain[2].hash # chain[1].hash

\* C6: in a chain built by new and successful add_block calls, the genesis has
\* index 0 and previous_hash "0", and the block at each position carries that
\* position as its index.
C6_BuiltChainIndexed ==
    Built => /\ chain # <<>>
             /\ chain[1].index = 0
             /\ chain[1].previous_hash = Sentinel
             /\ \A i \in 1..Len(chain) : chain[i].index = i - 1

C6_Witness ==
    /\ Built /\ lastOp = "add_block" /\ ret = "Ok"
    /\ Len(chain) >= 3
    /\ chain[3].index = 2

\* C7: a block returned by mine for difficulty d has a hash with at least d
\* leading '0' characters, so every block of a built chain has, and the
\* difficulty of a chain never changes.
C7_MinedMeetsDifficulty ==
    /\ [](/\ (lastOp \in {"new", "add_block"} /\ ret = "Ok")
                => LeadingZeros(LastBlock(chain).hash, difficulty)
          /\ Built => \A i \in 1..Len(chain) : LeadingZeros(chain[i].hash, difficulty))
    /\ [][difficulty' = difficulty]_vars

C7_Witness ==
    /\ Built /\ lastOp = "add_block" /\ ret = "Ok"
    /\ difficulty >= 1
    /\ Len(chain) >= 3
    /\ LastBlock(chain).nonce > 0
    /\ \A i \in 1..Len(chain) : chain[i].hash[1] = 48

\* C8: a block returned by mine is self-consistent: the digest of its index,
\* previous_hash, transactions and nonce is its hash field.
C8_MinedSelfConsistent ==
    /\ (lastOp \in {"new", "add_block"} /\ ret = "Ok") => SelfConsistent(LastBlock(chain))
    /\ Built => AllSelfConsistent(chain)

C8_Witness ==
    /\ lastOp = "add_block" /\ ret = "Ok"
    /\ LastBlock(chain).nonce > 0
    /\ LastBlock(chain).transactions # <<>>
    /\ SelfConsistent(LastBlock(chain))

\* C9: a successful add_block lengthens the chain by exactly one block and
\* leaves the blocks that were there as they were; add_block and is_valid
\* never remove, reorder or rewrite a block, and is_valid changes nothing.
C9_AppendOnly ==
    [][/\ (lastOp' = "add_block" /\ ret' = "Ok")
            => /\ Len(chain') = Len(chain) + 1
               /\ SubSeq(chain', 1, Len(chain)) = chain
       /\ lastOp' \in {"add_block", "is_valid"}
            => /\ Len(chain') >= Len(chain)
               /\ SubSeq(chain', 1, Len(chain)) = chain
       /\ lastOp' = "is_valid" => (chain' = chain /\ difficulty' = difficulty)]_vars

C9_Witness ==
    /\ lastOp = "add_block" /\ ret = "Ok"
    /\ tampers > 0
    /\ Len(chain) >= 3
    /\ ~SelfConsistent(chain[1])

\* C10: add_block returns an error when the chain is empty, and whenever
\* add_block returns an error the block sequence is what it was before the
\* call.
C10_ErrorLeavesChain ==
    [][lastOp' = "add_block"
          => /\ chain = <<>> => ret' = "Err"
             /\ ret' = "Err" => chain' = chain]_vars

C10_Witness == lastOp = "add_block" /\ ret = "Err" /\ chain = <<>>

\* The length of a signature over a content hash.
SignatureLen == Len(PQCSign(Sha256(<<>>), Keypair(1).sk))

WrongLength(tx) == Len(tx.signature) # SignatureLen

\* The signature was produced by a key other than the sender's.
KeyMismatch(tx) ==
    \E k \in 1..NumWallets :
        /\ tx.signature # <<>>
        /\ tx.signature = PQCSign(Tail(tx.signature), Keypair(k).sk)
        /\ tx.from # Keypair(k).pk

\* The signature is the sender's over the content hash of another payload.
PayloadChanged(tx) ==
    \E k \in 1..NumWallets, d \in Payloads \ {tx.data} :
        /\ tx.from = Keypair(k).pk
        /\ tx.signature = PQCSign(Sha256(tx.from \o d), Keypair(k).sk)

\* C11: Transaction::verify always returns a boolean, and it returns false
\* for a signature of the wrong length, for a signature produced by a key
\* other than the sender's, and for a payload changed after signing.
C11_VerifyRejects ==
    lastOp = "verify"
        => /\ ret \in {"true", "false"}
           /\ (WrongLength(arg[1]) \/ KeyMismatch(arg[1]) \/ PayloadChanged(arg[1]))
                  => ret = "false"

C11_Witness ==
    /\ lastOp = "verify" /\ ret = "false"
    /\ ~WrongLength(arg[1])
    /\ arg[1].from = Keypair(1).pk
    /\ arg[1].signature = PQCSign(Sha256(arg[1].from \o arg[1].data), Keypair(2).sk)

\* C13: the content hash of a transaction is the same for every signature it
\* may carry, its sender and payload being equal, and computing it leaves the
\* transaction as it was.
C13_HashIgnoresSignature ==
    /\ [](lastOp = "hash"
            => \A s \in Altered(arg[1].signature) \cup {<<>>, arg[1].from} :
                   TxHash([arg[1] EXCEPT !.signature = s]) = ret)
    /\ [][lastOp' = "hash" => arg' = arg]_vars

C13_Witness ==
    /\ lastOp = "hash"
    /\ tampers > 0
    /\ ~Genuine(arg[1])
    /\ arg[1].signature # <<>>
    /\ ret = Sha256(arg[1].from \o arg[1].data)

\* C14: mine returns the smallest nonce whose hash has at least difficulty
\* leading zeros: no smaller nonce, from 0 on, qualifies for the block's
\* index, previous_hash and transactions; at difficulty 0 the nonce is 0.
C14_SmallestNonce ==
    (lastOp \in {"new", "add_block"} /\ ret = "Ok")
        => LET b == LastBlock(chain) IN
           /\ \A n \in 0..(b.nonce - 1) :
                  ~LeadingZeros(Recomputed([b EXCEPT !.nonce = n]), difficulty)
           /\ difficulty = 0 => b.nonce = 0

C14_Witness ==
    /\ lastOp = "add_block" /\ ret = "Ok"
    /\ difficulty = 1
    /\ LastBlock(chain).nonce > 1
    /\ LeadingZeros(LastBlock(chain).hash, 1)
    /\ ~LeadingZeros(Recomputed([LastBlock(chain) EXCEPT !.nonce = 0]), 1)
    /\ ~LeadingZeros(Recomputed([LastBlock(chain) EXCEPT !.nonce = 1]), 1)

\* C15: the chain of main (new, then add_block twice with the transaction main
\* builds from wallet.sign(message)) has 3 blocks and is_valid returns true for
\* it, the signature of the transaction being a signature over its content
\* hash.
C15_MainChainValid ==
    (/\ lastOp = "is_valid" /\ Built
     /\ Len(chain) = 3
     /\ chain[2].transactions = <<MainTx>>
     /\ chain[3].transactions = <<MainTx>>)
        => /\ ret = "true"
           /\ MainTx.signature = PQCSign(Sha256(MainTx.from \o MainTx.data), Keypair(1).sk)

\* C16: is_valid does not look at the difficulty: a chain whose blocks are
\* self-consistent, linked and carry genuine transactions is valid although
\* one of its hashes has fewer than difficulty leading zeros.
C16_DifficultyNotRechecked ==
    (/\ lastOp = "is_valid"
     /\ AllSelfConsistent(chain) /\ Linked(chain) /\ AllGenuine(chain)
     /\ \E i \in 1..Len(chain) : ~LeadingZeros(chain[i].hash, difficulty))
        => ret = "true"

C16_Witness ==
    /\ lastOp = "is_valid" /\ ret = "true"
    /\ difficulty = 1
    /\ Len(chain) >= 2
    /\ LastBlock(chain).transactions # <<>>
    /\ SelfConsistent(LastBlock(chain))
    /\ ~LeadingZeros(LastBlock(chain).hash, difficulty)

\* C17 as stated: whenever is_valid returns true, however the block sequence
\* was produced, the block at position i has index i and block 0 has
\* previous_hash "0".
C17_Original ==
    (lastOp = "is_valid" /\ ret = "true")
        => /\ \A i \in 1..Len(chain) : chain[i].index = i - 1
           /\ chain # <<>> => chain[1].previous_hash = Sentinel

\* C17, amended: whenever is_valid returns true for a chain whose block
\* sequence was produced by new and add_block only, the block at position i has
\* index i and block 0 has previous_hash "0".
C17_ValidBuiltChainIndexed ==
    (lastOp = "is_valid" /\ ret = "true" /\ Built)
        => /\ \A i \in 1..Len(chain) : chain[i].index = i - 1
           /\ chain # <<>> /\ chain[1].previous_hash = Sentinel

C17_Witness ==
    /\ lastOp = "is_valid" /\ ret = "true" /\ Built
    /\ Len(chain) = 3
    /\ chain[3].index = 2
    /\ chain[1].index = 0 /\ chain[1].previous_hash = Sentinel

\* C18: after a successful add_block(txs) the last block holds exactly txs,
\* its index is the length of the chain before the call and its previous_hash
\* is the hash of the block that was last before the call.
C18_AppendedBlock ==
    [][(lastOp' = "add_block" /\ ret' = "Ok")
          => /\ chain # <<>>
             /\ LastBlock(chain').transactions = arg'[1]
             /\ LastBlock(chain').index = Len(chain)
             /\ LastBlock(chain').previous_hash = LastBlock(chain).hash]_vars

C18_Witness ==
    /\ lastOp = "add_block" /\ ret = "Ok"
    /\ Len(arg[1]) = 2
    /\ Len(chain) = 3
    /\ LastBlock(chain).transactions = arg[1]
    /\ LastBlock(chain).index = 2
    /\ LastBlock(chain).previous_hash = chain[2].hash

\* C19 as stated: two argument tuples (index, previous_hash, transactions,
\* nonce) that differ in any component give different input strings.
C19_Original ==
    (lastOp = "input" /\ arg[1] # arg[2]) => ret[1] # ret[2]

\* C19, amended: two argument tuples whose previous_hash strings have the
\* same length and that differ in any component give different input strings.
C19_InjectiveAtEqualLength ==
    (/\ lastOp = "input"
     /\ arg[1] # arg[2]
     /\ Len(arg[1].previous_hash) = Len(arg[2].previous_hash))
        => ret[1] # ret[2]

C19_Witness ==
    /\ lastOp = "input"
    /\ arg[1].index = 1 /\ arg[2].index = 10
    /\ arg[1].previous_hash = <<48, 53>> /\ arg[2].previous_hash = <<53, 48>>
    /\ arg[1].transactions = arg[2].transactions
    /\ arg[1].nonce = 0 /\ arg[2].nonce = 50
    /\ ret[1] # ret[2]

====
